---- MODULE Spec2Model ----
(***************************************************************************)
(* Presence-and-broadcast relay: the Socket.IO server (server/server.js)   *)
(* and the client-side connection hook (client/src/hooks/useSocket.js).    *)
(*                                                                         *)
(* Every server callback runs to completion on Node's single thread, so    *)
(* each callback is one action.  An exception that escapes a callback is   *)
(* an uncaught exception: server.js installs no handler for it, the        *)
(* process ends, and with it every connection and the registry.            *)
(***************************************************************************)
EXTENDS Integers, Sequences, FiniteSets, TLC

\* ------------------------------------------------------------------ bounds
MaxSockets == 2          \* transport sessions opened in one run
MaxEvents == 2           \* application events the server processes in one run
MaxKeys == 3             \* keystrokes in the message input in one run
MaxRoomEvents == 3       \* room events the server processes in one run

Sockets == 1..MaxSockets
NoSocket == 0            \* socketRef.current === null

\* ------------------------------------------------------------ input values
NoToken == "none"        \* handshake.auth.token is undefined or empty
BadToken == "garbage"    \* a string jwt.decode cannot decode
Tokens == {NoToken, BadToken, "tokA", "tokB"}
\* a well-formed token a client made up itself: the payload names uA, the
\* signature is not the server's
ForgedToken == "tokA.forged"
\* the token the README's App builds: 'mock_token_' + userId, not a JWT
ReadmeToken == "mock_token_user_1"
Users == {"uA", "uB"}
Components == {"Chat", "Notif"}
Undefined == "undefined"

\* jwt.decode(token): the payload of a well-formed token, null otherwise.
\* The signature is not looked at.
Decodable(token) == token \in {"tokA", "tokB", ForgedToken}

JwtDecode(token) ==
    IF token \in {"tokA", ForgedToken}
    THEN [userId |-> "uA", userName |-> "Ann", email |-> "ann@x"]
    ELSE IF token = "tokB"
    THEN [userId |-> "uB", userName |-> "Bob", email |-> "bob@x"]
    ELSE [userId |-> Undefined, userName |-> Undefined, email |-> Undefined]

\* Handlers the connection callback installs on the socket.
Handlers ==
    {"sendMessage", "userTyping", "sendNotification", "joinChatRoom",
     "roomMessage", "leaveChatRoom", "shareUpdate", "updateStatus",
     "getActiveUsers", "disconnect", "error"}

\* Payloads a client can put on sendMessage: an object with a text, with an
\* empty text, without a text, and no object at all (null / undefined).
MessagePayloads ==
    {[kind |-> "object", text |-> "hi"],
     [kind |-> "object", text |-> ""],
     [kind |-> "object", text |-> Undefined],
     [kind |-> "null", text |-> Undefined]}

\* Payloads a client can put on userTyping.
TypingPayloads ==
    {[kind |-> "object", isTyping |-> TRUE],
     [kind |-> "object", isTyping |-> FALSE],
     [kind |-> "null", isTyping |-> Undefined]}

NotificationPayloads ==
    {[kind |-> "object", recipientId |-> u, message |-> "ping"] : u \in Users}
    \cup {[kind |-> "null", recipientId |-> Undefined, message |-> Undefined]}

VARIABLES
    serverUp,        \* the server process is running
    socketAttr,      \* the server-side Socket object carries a `socket` attribute
    sock,            \* per transport session: state, token, fields set by the middleware
    ioSockets,       \* io.sockets.sockets, in insertion order
    listeners,       \* per socket: the event names that have a handler
    activeUsers,     \* the Map activeUsers, as its entries in insertion order
    rcvd,            \* per socket: the events the server emitted to it, in order
    nextId,          \* the next unused transport session
    nEvents,         \* application events processed so far
    appToken,        \* the token prop the App hands to its components
    mounted,         \* per component: currently mounted
    socketRef,       \* per component: useSocket's socketRef.current
    cl,              \* per socket the client created: connection state, attempts, listener table
    comp,            \* per component: the hook's connected / error state and the socket its listeners are on
    typingTimeoutRef, \* ChatComponent's typingTimeoutRef.current: a timer handle or NoTimer
    timers,          \* the pending stop-typing timers
    typingLog,       \* the isTyping values ChatComponent has emitted as userTyping, in order
    inputValue,      \* ChatComponent's inputValue
    nextTimer,       \* the next timer handle setTimeout gives out
    burst,           \* history of the current run of keystrokes, used by the properties only
    chat,            \* ChatComponent's messages, activeUsers and typingUsers state
    seen,            \* per socket: how many of the events sent to it its client has taken in
    outbox,          \* per socket: the room events its client has emitted that are still on their way
    adapter,         \* the rooms of the namespace: sids (socket -> rooms) and rooms (room -> sockets)
    hist             \* history: a connect just processed (and then its disconnect) with the registry before it,
                     \* or a notification just processed that found no recipient

vars == <<serverUp, socketAttr, sock, ioSockets, listeners, activeUsers, rcvd,
          nextId, nEvents, appToken, mounted, socketRef, cl, comp,
          typingTimeoutRef, timers, typingLog, inputValue, nextTimer, burst, chat, seen,
          outbox, adapter, hist>>

serverVars == <<serverUp, ioSockets, listeners, activeUsers, rcvd, nEvents, adapter, hist>>
typingVars == <<typingTimeoutRef, timers, typingLog, inputValue, nextTimer, burst>>
tabVars == <<chat, seen, outbox>>
clientVars == <<appToken, mounted, socketRef, cl, comp, typingVars, tabVars>>

\* ------------------------------------------------------------ Map helpers
MapHas(m, k) == \E i \in 1..Len(m) : m[i].key = k

MapGet(m, k) == m[CHOOSE i \in 1..Len(m) : m[i].key = k].val

\* an array push in place of Map.set: every call adds an entry
MapSetPush(m, k, v) == Append(m, [key |-> k, val |-> v])

\* Map.prototype.set: an existing key keeps its position and gets the new value
MapSet(m, k, v) ==
    IF MapHas(m, k)
    THEN [i \in 1..Len(m) |-> IF m[i].key = k THEN [key |-> k, val |-> v] ELSE m[i]]
    ELSE Append(m, [key |-> k, val |-> v])

\* a delete that leaves the entry in the Map
MapDeleteNothing(m, k) == m

\* Map.prototype.delete
MapDelete(m, k) == SelectSeq(m, LAMBDA e : e.key # k)

\* Array.from(map.values())
Values(m) == [i \in 1..Len(m) |-> m[i].val]

SeqRemove(q, x) == SelectSeq(q, LAMBDA e : e # x)

Connected == {ioSockets[i] : i \in 1..Len(ioSockets)}

\* an emit appends the event to the stream of every target socket
EmitTo(rc, targets, ev) ==
    [t \in Sockets |-> IF t \in targets THEN Append(rc[t], ev) ELSE rc[t]]

\* ------------------------------------------------------- client listeners
ReconnectionAttempts == 5    \* io(..., {reconnectionAttempts: 5})

HookEvents == {"connect", "disconnect", "connect_error"}
ChatEvents == {"messageReceived", "userTyping", "userConnected", "userDisconnected"}
NotifEvents == {"notificationReceived"}
ClientEvents == HookEvents \cup ChatEvents \cup NotifEvents

\* the events a component's effect listens to, in the order it attaches them
ComponentEvents(c) ==
    IF c = "Chat"
    THEN <<"messageReceived", "userTyping", "userConnected", "userDisconnected">>
    ELSE <<"notificationReceived">>

\* socket.on(event, handler): the handler of owner is added to the event's list
On(tbl, e, owner) == [tbl EXCEPT ![e] = Append(@, owner)]

\* socket.removeAllListeners() in place of socket.off(event)
OffEverything(tbl, e) == [x \in ClientEvents |-> <<>>]

\* a socket.off that removes nothing
OffNothing(tbl, e) == tbl

\* socket.off(event), called without a handler: every handler of the event goes
Off(tbl, e) == [tbl EXCEPT ![e] = <<>>]

RECURSIVE OnSeq(_, _, _)
OnSeq(tbl, es, owner) ==
    IF es = <<>> THEN tbl ELSE OnSeq(On(tbl, Head(es), owner), Tail(es), owner)

RECURSIVE OffSeq(_, _)
OffSeq(tbl, es) ==
    IF es = <<>> THEN tbl ELSE OffSeq(Off(tbl, Head(es)), Tail(es))

NoListeners == [e \in ClientEvents |-> <<>>]

NoClientSocket ==
    [st |-> "none", attempts |-> 0, skip |-> FALSE, sessions |-> 0, on |-> NoListeners]

\* the socket io(...) returns, with the three listeners useSocket puts on it
NewClientSocket ==
    [st |-> "connecting", attempts |-> 0, skip |-> FALSE, sessions |-> 1,
     on |-> OnSeq(NoListeners, <<"connect", "disconnect", "connect_error">>, "hook")]

\* a component instance right after its first render
FreshComp == [connected |-> FALSE, error |-> FALSE, eff |-> NoSocket]

\* the value of typingTimeoutRef.current when no timer is recorded (null)
NoTimer == 0

\* the value of selectedRoom when no room has been chosen (null)
NoRoom == "null"

\* ChatComponent's state after its first render
NoChat == [messages |-> <<>>, activeUsers |-> <<>>, typingUsers |-> {}, selectedRoom |-> NoRoom]

\* no keystroke yet
NoBurst == [keys |-> 0, trues |-> 0, falses |-> 0, open |-> FALSE, clean |-> TRUE, fired |-> 0]

\* ------------------------------------------------------------------ rooms
\* The chat rooms a client can name.  (The room every socket holds under its
\* own id is left out: the server never emits to it.)
RoomIds == {"general", "random"}

EmptyAdapter == [sids |-> [s \in Sockets |-> {}], rooms |-> [r \in RoomIds |-> {}]]

\* socket.join(roomId): both indices get the pair
AdapterAdd(ad, s, r) ==
    [sids |-> [ad.sids EXCEPT ![s] = @ \cup {r}],
     rooms |-> [ad.rooms EXCEPT ![r] = @ \cup {s}]]

\* a leave that forgets the room's member list
AdapterDelSidsOnly(ad, s, r) ==
    [ad EXCEPT !.sids = [ad.sids EXCEPT ![s] = @ \ {r}]]

\* a leave that does nothing
AdapterDelNothing(ad, s, r) == ad

\* socket.leave(roomId): both indices lose the pair
AdapterDel(ad, s, r) ==
    [sids |-> [ad.sids EXCEPT ![s] = @ \ {r}],
     rooms |-> [ad.rooms EXCEPT ![r] = @ \ {s}]]

\* on disconnect the library takes the socket out of every room, before the
\* 'disconnect' handler runs
AdapterDelAll(ad, s) ==
    [sids |-> [ad.sids EXCEPT ![s] = {}],
     rooms |-> [r \in RoomIds |-> ad.rooms[r] \ {s}]]

NoHist == [op |-> "other", s |-> NoSocket, before |-> <<>>, to |-> Undefined, members |-> {}]

FreshSock == [st |-> "unused", token |-> NoToken, userId |-> Undefined,
              userName |-> Undefined, email |-> Undefined, err |-> ""]

Init ==
    /\ serverUp = TRUE
    /\ socketAttr \in BOOLEAN
    /\ sock = [s \in Sockets |-> FreshSock]
    /\ ioSockets = <<>>
    /\ listeners = [s \in Sockets |-> {}]
    /\ activeUsers = <<>>
    /\ rcvd = [s \in Sockets |-> <<>>]
    /\ nextId = 1
    /\ nEvents = 0
    /\ appToken = NoToken
    /\ mounted = [c \in Components |-> FALSE]
    /\ socketRef = [c \in Components |-> NoSocket]
    /\ cl = [s \in Sockets |-> NoClientSocket]
    /\ comp = [c \in Components |-> FreshComp]
    /\ typingTimeoutRef = NoTimer
    /\ timers = {}
    /\ typingLog = <<>>
    /\ inputValue = ""
    /\ nextTimer = 1
    /\ burst = NoBurst
    /\ chat = NoChat
    /\ seen = [s \in Sockets |-> 0]
    /\ outbox = [s \in Sockets |-> <<>>]
    /\ adapter = EmptyAdapter
    /\ hist = NoHist

\* ------------------------------------------------------ process termination
\* An exception escaped a callback: the process ends.  Every connection is
\* gone and the registry with it; what clients already received stays received.
Crash(sk) ==
    /\ serverUp' = FALSE
    /\ ioSockets' = <<>>
    /\ activeUsers' = <<>>
    /\ listeners' = [t \in Sockets |-> {}]
    /\ sock' = [t \in Sockets |->
                  IF sk[t].st \in {"opening", "connected"}
                  THEN [sk[t] EXCEPT !.st = "closed"]
                  ELSE sk[t]]
    /\ adapter' = EmptyAdapter
    /\ hist' = NoHist
    /\ UNCHANGED <<rcvd, nEvents>>

\* ------------------------------------------------------------- the client
\* The effect of useSocket(token) in component c, on the client state
\* cs = [sock, nextId, socketRef, cl]: nothing without a token, nothing when the
\* ref already holds a socket, otherwise io(...) into the ref.
UseSocketEffect(c, token, cs) ==
    IF token = NoToken THEN cs
    ELSE IF cs.socketRef[c] # NoSocket THEN cs
    ELSE [sock |-> [cs.sock EXCEPT ![cs.nextId] =
                       [FreshSock EXCEPT !.st = "opening", !.token = token]],
          nextId |-> cs.nextId + 1,
          socketRef |-> [cs.socketRef EXCEPT ![c] = cs.nextId],
          cl |-> [cs.cl EXCEPT ![cs.nextId] = NewClientSocket]]

ClientState == [sock |-> sock, nextId |-> nextId, socketRef |-> socketRef, cl |-> cl]

\* A component mounts: its render calls useSocket(token) with a fresh ref and
\* the effect runs.
Mount(c) ==
    /\ ~mounted[c]
    /\ nextId <= MaxSockets
    /\ mounted' = [mounted EXCEPT ![c] = TRUE]
    /\ LET cs == UseSocketEffect(c, appToken, ClientState) IN
       /\ sock' = cs.sock
       /\ nextId' = cs.nextId
       /\ socketRef' = cs.socketRef
       /\ cl' = cs.cl
    /\ comp' = [comp EXCEPT ![c] = FreshComp]
    /\ chat' = IF c = "Chat" THEN NoChat ELSE chat
    /\ UNCHANGED <<serverVars, socketAttr, appToken, typingVars, seen, outbox>>

\* The App hands its components another token: the effect of every mounted
\* component runs again (the cleanup before it does nothing).
SetToken(token) ==
    /\ token # appToken
    /\ nextId + Cardinality({c \in Components : mounted[c]}) <= MaxSockets + 1
    /\ appToken' = token
    /\ LET cs1 == IF mounted["Chat"] THEN UseSocketEffect("Chat", token, ClientState)
                  ELSE ClientState
           cs2 == IF mounted["Notif"] THEN UseSocketEffect("Notif", token, cs1)
                  ELSE cs1
       IN /\ sock' = cs2.sock
          /\ nextId' = cs2.nextId
          /\ socketRef' = cs2.socketRef
          /\ cl' = cs2.cl
    /\ UNCHANGED <<serverVars, socketAttr, mounted, comp, typingVars, tabVars>>

\* The effect of a component (deps [socket, connected]) after a render in
\* which the hook reports connectedNow: the cleanup of the previous run takes
\* the component's events off the socket it had listeners on, then the
\* listeners are attached if there is a socket and it is connected.
\* Gives the listener tables and the socket the listeners are now on.
ComponentEffect(c, connectedNow, tbls) ==
    LET s == socketRef[c]
        cleaned == IF comp[c].eff # NoSocket
                   THEN [tbls EXCEPT ![comp[c].eff].on = OffSeq(@, ComponentEvents(c))]
                   ELSE tbls
    IN IF connectedNow /\ s # NoSocket
       THEN [cl |-> [cleaned EXCEPT ![s].on = OnSeq(@, ComponentEvents(c), c)], eff |-> s]
       ELSE [cl |-> cleaned, eff |-> NoSocket]

\* A component unmounts: the cleanup of its listener effect runs, the cleanup
\* of useSocket's effect does nothing, the refs and state are dropped with the
\* component instance, and the socket it held stays as it is.
Unmount(c) ==
    /\ mounted[c]
    /\ mounted' = [mounted EXCEPT ![c] = FALSE]
    /\ socketRef' = [socketRef EXCEPT ![c] = NoSocket]
    /\ cl' = IF comp[c].eff # NoSocket
             THEN [cl EXCEPT ![comp[c].eff].on = OffSeq(@, ComponentEvents(c))]
             ELSE cl
    /\ comp' = [comp EXCEPT ![c] = FreshComp]
    /\ IF c = "Chat"
       THEN /\ typingTimeoutRef' = NoTimer
            /\ inputValue' = ""
            /\ burst' = NoBurst
            /\ chat' = NoChat
       ELSE UNCHANGED <<typingTimeoutRef, inputValue, burst, chat>>
    /\ UNCHANGED <<serverVars, socketAttr, appToken, sock, nextId, timers, typingLog, nextTimer,
                   seen, outbox>>

\* ------------------------------------------------ the client's connection
\* the component that holds socket s, if one does
HasOwner(s) == \E c \in Components : mounted[c] /\ socketRef[c] = s
Owner(s) == CHOOSE c \in Components : mounted[c] /\ socketRef[c] = s

HandlersOf(tbl, e) == {tbl[e][i] : i \in 1..Len(tbl[e])}

\* The socket emits one of the events useSocket listens to: its listener sets
\* the hook's state in the component that holds the socket, and a change of
\* connected re-renders the component and re-runs its listener effect.
\* Gives the components' state and the listener tables afterwards.
HookFire(s, e, tbls) ==
    IF ~HasOwner(s) \/ "hook" \notin HandlersOf(tbls[s].on, e)
    THEN [comp |-> comp, cl |-> tbls]
    ELSE LET c == Owner(s)
             now == (e = "connect")
         IN IF e = "connect_error"
            THEN [comp |-> [comp EXCEPT ![c].error = TRUE], cl |-> tbls]
            ELSE LET err == IF now THEN FALSE ELSE comp[c].error
                     r == ComponentEffect(c, now, tbls)
                 IN IF comp[c].connected = now
                    THEN [comp |-> [comp EXCEPT ![c].error = err], cl |-> tbls]
                    ELSE [comp |-> [comp EXCEPT ![c] = [connected |-> now, error |-> err,
                                                         eff |-> r.eff]],
                          cl |-> r.cl]

\* one automatic attempt too many
CanRetryOneMore(n) == n < ReconnectionAttempts + 1

\* the manager schedules another automatic attempt while fewer than
\* reconnectionAttempts have been made
CanRetry(n) == n < ReconnectionAttempts

\* disconnect() that leaves a scheduled reconnection running
AfterDisconnectKeepsTimer(st) == IF st = "waiting" THEN st ELSE "closed"

\* the connection state after socket.disconnect()
AfterDisconnect(st) == "closed"

\* The server accepts the connection: 'connect' fires on the client.
ClientConnected(s) ==
    /\ cl[s].st \in {"connecting", "attempting"}
    /\ LET r == HookFire(s, "connect", [cl EXCEPT ![s].st = "connected", ![s].attempts = 0])
       IN /\ cl' = r.cl
          /\ comp' = r.comp
    /\ UNCHANGED <<serverVars, socketAttr, sock, nextId, appToken, mounted, socketRef, typingVars,
                   tabVars>>

\* The transport cannot be opened: 'connect_error' fires, and the manager
\* schedules a reconnection unless the automatic attempts are used up.
ConnectFails(s) ==
    /\ cl[s].st \in {"connecting", "attempting"}
    /\ LET st2 == IF cl[s].st = "connecting" \/ CanRetry(cl[s].attempts)
                  THEN "waiting" ELSE "failed"
           r == HookFire(s, "connect_error", [cl EXCEPT ![s].st = st2])
       IN /\ cl' = r.cl
          /\ comp' = r.comp
    /\ UNCHANGED <<serverVars, socketAttr, sock, nextId, appToken, mounted, socketRef, typingVars,
                   tabVars>>

\* The gateway's middleware refuses the handshake: 'connect_error' fires; the
\* transport is open, so the manager does not reconnect.
ClientRejected(s) ==
    /\ cl[s].st \in {"connecting", "attempting"}
    /\ LET r == HookFire(s, "connect_error", [cl EXCEPT ![s].st = "rejected", ![s].attempts = 0])
       IN /\ cl' = r.cl
          /\ comp' = r.comp
    /\ UNCHANGED <<serverVars, socketAttr, sock, nextId, appToken, mounted, socketRef, typingVars,
                   tabVars>>

\* The reconnection delay elapses: the manager makes an automatic attempt.
ReconnectTimer(s) ==
    /\ cl[s].st = "waiting"
    /\ ~cl[s].skip
    /\ cl' = [cl EXCEPT ![s].st = "attempting", ![s].attempts = @ + 1]
    /\ UNCHANGED <<serverVars, socketAttr, sock, nextId, appToken, mounted, socketRef, comp,
                   typingVars, tabVars>>

\* The transport of a connected socket is lost: 'disconnect' fires and the
\* manager starts reconnecting.  What the socket had emitted and the server
\* has not taken in is lost with the transport.
TransportLoss(s) ==
    /\ cl[s].st = "connected"
    /\ LET r == HookFire(s, "disconnect", [cl EXCEPT ![s].st = "waiting", ![s].attempts = 0])
       IN /\ cl' = r.cl
          /\ comp' = r.comp
    /\ outbox' = [outbox EXCEPT ![s] = <<>>]
    /\ UNCHANGED <<serverVars, socketAttr, sock, nextId, appToken, mounted, socketRef, typingVars,
                   chat, seen>>

\* The consumer calls the disconnect() the hook returns: socket.disconnect()
\* closes the manager, which stops reconnecting; 'disconnect' fires if the
\* socket was connected.
ManualDisconnect(c) ==
    /\ mounted[c]
    /\ socketRef[c] # NoSocket
    /\ LET s == socketRef[c]
           tbls == [cl EXCEPT ![s].st = AfterDisconnect(@), ![s].attempts = 0, ![s].skip = TRUE]
           r == IF cl[s].st = "connected" THEN HookFire(s, "disconnect", tbls)
                ELSE [comp |-> comp, cl |-> tbls]
       IN /\ cl' = r.cl
          /\ comp' = r.comp
    /\ UNCHANGED <<serverVars, socketAttr, sock, nextId, appToken, mounted, socketRef, typingVars,
                   tabVars>>

\* The consumer calls the reconnect() the hook returns: socket.connect() opens
\* the manager again unless the socket is connected or already on its way.
ManualReconnect(c) ==
    /\ mounted[c]
    /\ socketRef[c] # NoSocket
    /\ cl[socketRef[c]].st \in {"closed", "failed", "rejected"}
    /\ cl' = [cl EXCEPT ![socketRef[c]].st = "connecting", ![socketRef[c]].attempts = 0,
                        ![socketRef[c]].skip = FALSE]
    /\ UNCHANGED <<serverVars, socketAttr, sock, nextId, appToken, mounted, socketRef, comp,
                   typingVars, tabVars>>

\* ------------------------------------------------- the tab and the server
\* The client of a session a hook opened learns that the server accepted it.
TabConnected(s) ==
    /\ sock[s].st = "connected"
    /\ ClientConnected(s)

\* The client of a session a hook opened learns that the middleware refused it.
TabRejected(s) ==
    /\ sock[s].st = "rejected"
    /\ ClientRejected(s)

\* how many handlers component c has on event e of socket s
HandlerCount(s, e, c) ==
    IF e \in ClientEvents THEN Len(SelectSeq(cl[s].on[e], LAMBDA o : o = c)) ELSE 0

RECURSIVE Times(_, _, _)
Times(q, x, n) == IF n = 0 THEN q ELSE Times(Append(q, x), x, n - 1)

\* ChatComponent's handlers: what n handlers of the event make of the state
ChatHandle(st, e, n) ==
    IF n = 0 THEN st
    ELSE IF e.ev = "messageReceived"
    THEN [st EXCEPT !.messages = Times(@, e.text, n)]
    ELSE IF e.ev = "userTyping"
    THEN [st EXCEPT !.typingUsers = IF e.isTyping THEN @ \cup {e.userId} ELSE @ \ {e.userId}]
    ELSE IF e.ev \in {"userConnected", "userDisconnected"}
    THEN [st EXCEPT !.activeUsers = e.activeUsers]
    ELSE st

\* The next event the server sent on session s reaches its client: the
\* handlers attached for it run; an event nobody listens to is dropped.  An
\* event that arrives after 'connect' but before the component's effect has
\* attached its listeners is the case cl[s].st = "connecting" here, since
\* ClientConnected stands for 'connect' together with the render and effect
\* that follow it.
Deliver(s) ==
    /\ cl[s].st # "none"
    /\ seen[s] < Len(rcvd[s])
    /\ seen' = [seen EXCEPT ![s] = @ + 1]
    /\ chat' = IF HasOwner(s) /\ Owner(s) = "Chat"
               THEN ChatHandle(chat, rcvd[s][seen[s] + 1],
                               HandlerCount(s, rcvd[s][seen[s] + 1].ev, "Chat"))
               ELSE chat
    /\ UNCHANGED <<serverVars, socketAttr, sock, nextId, appToken, mounted, socketRef, cl, comp,
                   typingVars, outbox>>

\* ------------------------------------------------------- typing indicator
\* userTyping {isTyping: true} on every keystroke
EmitsTypingTrueAlways(ref) == TRUE

\* if (!typingTimeoutRef.current): only a keystroke with no timer recorded
\* announces typing
EmitsTypingTrue(ref) == ref = NoTimer

\* a clearTimeout that cancels nothing
ClearTimeoutNothing(ts, handle) == ts

\* clearTimeout(handle): the timer with that handle, if pending, never fires
ClearTimeout(ts, handle) == {x \in ts : x.id # handle}

\* A keystroke in the message input, which is enabled only while connected.
HandleInputChange(v) ==
    /\ mounted["Chat"]
    /\ comp["Chat"].connected
    /\ nextTimer <= MaxKeys
    /\ LET emits == EmitsTypingTrue(typingTimeoutRef) /\ socketRef["Chat"] # NoSocket
           b == IF typingTimeoutRef = NoTimer
                THEN [keys |-> 1, trues |-> IF emits THEN 1 ELSE 0, falses |-> 0,
                      open |-> TRUE, clean |-> TRUE, fired |-> 0]
                ELSE [burst EXCEPT !.keys = @ + 1, !.trues = IF emits THEN @ + 1 ELSE @]
       IN /\ inputValue' = v
          /\ typingLog' = IF emits THEN Append(typingLog, TRUE) ELSE typingLog
          /\ timers' = ClearTimeout(timers, typingTimeoutRef)
                          \cup {[id |-> nextTimer, key |-> b.keys]}
          /\ typingTimeoutRef' = nextTimer
          /\ nextTimer' = nextTimer + 1
          /\ burst' = b
    /\ UNCHANGED <<serverVars, socketAttr, sock, nextId, appToken, mounted, socketRef, cl, comp,
                   tabVars>>

\* A stop-typing timer fires, 2000 ms after the keystroke that set it.
TypingTimeout(h) ==
    /\ h \in timers
    /\ typingLog' = Append(typingLog, FALSE)
    /\ typingTimeoutRef' = IF typingTimeoutRef = h.id THEN NoTimer ELSE typingTimeoutRef
    /\ timers' = timers \ {h}
    /\ burst' = [burst EXCEPT !.falses = @ + 1, !.open = FALSE, !.fired = h.key]
    /\ UNCHANGED <<serverVars, socketAttr, sock, nextId, appToken, mounted, socketRef, cl, comp,
                   inputValue, nextTimer, tabVars>>

\* The message form is submitted: sendMessage and userTyping {isTyping:
\* false} are emitted and the input is emptied; the timer is left alone.
HandleSendMessage ==
    /\ mounted["Chat"]
    /\ inputValue # ""
    /\ socketRef["Chat"] # NoSocket
    /\ comp["Chat"].connected
    /\ typingLog' = Append(typingLog, FALSE)
    /\ inputValue' = ""
    /\ burst' = IF burst.open THEN [burst EXCEPT !.falses = @ + 1, !.clean = FALSE] ELSE burst
    /\ UNCHANGED <<serverVars, socketAttr, sock, nextId, appToken, mounted, socketRef, cl, comp,
                   typingTimeoutRef, timers, nextTimer, tabVars>>

\* ------------------------------------------------------------- the gateway
\* the middleware without its error on a missing token: `return next()`
AuthenticateNoTokenPasses(token) ==
    IF token = NoToken THEN ""
    ELSE IF ~Decodable(token) THEN "Authentication failed: Invalid token"
    ELSE ""

\* io.use middleware: "" when next() is called without an error
Authenticate(token) ==
    IF token = NoToken THEN "Authentication error: No token provided"
    ELSE IF ~Decodable(token) THEN "Authentication failed: Invalid token"
    ELSE ""

\* a session in the state io(...) leaves it in
Opening(token) == [FreshSock EXCEPT !.st = "opening", !.token = token]

AuthReject(s, token) ==
    /\ sock' = [sock EXCEPT ![s] = [Opening(token) EXCEPT !.st = "rejected",
                                                         !.err = Authenticate(token)]]
    /\ hist' = NoHist
    /\ UNCHANGED <<serverUp, ioSockets, listeners, activeUsers, rcvd, nEvents, adapter>>

UserEntry(s, d) ==
    [socketId |-> s, userName |-> d.userName, email |-> d.email, status |-> "online"]

\* userConnected emitted before the set: the list lacks the new entry
UserConnectedEventStale(au, d) ==
    [ev |-> "userConnected", userId |-> d.userId, userName |-> d.userName,
     activeUsers |-> Values(MapDelete(au, d.userId))]

\* the payload of userConnected, built from the registry au after the set
UserConnectedEvent(au, d) ==
    [ev |-> "userConnected", userId |-> d.userId, userName |-> d.userName,
     activeUsers |-> Values(au)]

\* the payload of userDisconnected, built from the registry au after the delete
UserDisconnectedEvent(au, d) ==
    [ev |-> "userDisconnected", userId |-> d.userId, userName |-> d.userName,
     activeUsers |-> Values(au)]

\* io.on('connection'): the socket is already in io.sockets.sockets.  The
\* first statement (line 50) reads socket.socket.id, which throws a TypeError
\* when the socket has no `socket` attribute; nothing below it runs then and
\* the exception ends the process.  Socket.IO's server-side Socket defines no
\* such attribute, so socketAttr = FALSE is the run the library gives; the
\* runs with socketAttr = TRUE exercise the statements below line 50.
ConnectionHandler(s, token, d) ==
    IF ~socketAttr
    THEN Crash([sock EXCEPT ![s] = Opening(token)])
    ELSE LET au == MapSet(activeUsers, d.userId, UserEntry(s, d)) IN
         /\ activeUsers' = au
         /\ ioSockets' = Append(ioSockets, s)
         /\ rcvd' = EmitTo(rcvd, Connected \cup {s}, UserConnectedEvent(au, d))
         /\ listeners' = [listeners EXCEPT ![s] = Handlers]
         /\ sock' = [sock EXCEPT ![s] = [Opening(token) EXCEPT
                        !.st = "connected", !.userId = d.userId,
                        !.userName = d.userName, !.email = d.email]]
         /\ hist' = [NoHist EXCEPT !.op = "connect", !.s = s, !.before = activeUsers]
         /\ UNCHANGED <<serverUp, nEvents, adapter>>

\* The server takes the handshake of session s, which carries token:
\* the middleware, then the connection callback.
HandshakeOf(s, token) ==
    /\ serverUp
    /\ IF Authenticate(token) # ""
       THEN AuthReject(s, token)
       ELSE ConnectionHandler(s, token, JwtDecode(token))

\* the handshake of a session a useSocket hook opened
Handshake(s) ==
    /\ sock[s].st = "opening"
    /\ HandshakeOf(s, sock[s].token)
    /\ UNCHANGED <<socketAttr, nextId, clientVars>>

\* Any other client opens a session with a token of its choice, and the
\* server takes its handshake.
Connect(token) ==
    /\ nextId <= MaxSockets
    /\ HandshakeOf(nextId, token)
    /\ nextId' = nextId + 1
    /\ UNCHANGED <<socketAttr, clientVars>>

\* socket.on('disconnect'): the library has removed s from io.sockets.sockets
\* before the handler runs.
Disconnect(s) ==
    /\ serverUp
    /\ sock[s].st = "connected"
    /\ LET au == IF "disconnect" \in listeners[s]
                 THEN MapDelete(activeUsers, sock[s].userId)
                 ELSE activeUsers
           d == sock[s]
       IN /\ activeUsers' = au
          /\ ioSockets' = SeqRemove(ioSockets, s)
          /\ rcvd' = IF "disconnect" \in listeners[s]
                     THEN EmitTo(rcvd, Connected \ {s}, UserDisconnectedEvent(au, d))
                     ELSE rcvd
          /\ sock' = [sock EXCEPT ![s].st = "closed"]
          /\ adapter' = AdapterDelAll(adapter, s)
          /\ hist' = IF hist.op = "connect" /\ hist.s = s
                     THEN [hist EXCEPT !.op = "connectDisconnect"]
                     ELSE NoHist
    /\ UNCHANGED <<serverUp, listeners, nEvents, socketAttr, nextId, clientVars>>

\* ---------------------------------------------------------- chat messages
\* the events whose payload carries id: Date.now()
StampedEvents == {"messageReceived", "notificationReceived"}

\* the latest id the server has put on an event it sent, 0 before the first
LastStamp ==
    LET ids == {0} \cup UNION {{rcvd[t][i].id : i \in {j \in 1..Len(rcvd[t]) :
                                    rcvd[t][j].ev \in StampedEvents}} : t \in Sockets}
    IN CHOOSE n \in ids : \A k \in ids : k <= n

\* Date.now(): the clock's millisecond, which is the one of the latest id
\* handed out or a later one.  Only the order of the readings matters, so a
\* later millisecond is the next number.
DateNow == {LastStamp, LastStamp + 1} \ {0}

MessageReceivedEvent(s, messageData, now) ==
    [ev |-> "messageReceived", id |-> now, from |-> sock[s].userName,
     fromId |-> sock[s].userId, text |-> messageData.text]

\* socket.broadcast.emit in place of io.emit: everyone but the sender
SendMessageTargetsButSender(s) == Connected \ {s}

\* io.emit: every socket of the namespace
SendMessageTargets(s) == Connected

\* socket.on('sendMessage'): reading messageData.text of null throws.
SendMessage(s, messageData) ==
    /\ serverUp
    /\ sock[s].st = "connected"
    /\ "sendMessage" \in listeners[s]
    /\ nEvents < MaxEvents
    /\ IF messageData.kind = "null"
       THEN Crash(sock)
       ELSE /\ \E now \in DateNow :
                   rcvd' = EmitTo(rcvd, SendMessageTargets(s),
                                  MessageReceivedEvent(s, messageData, now))
            /\ nEvents' = nEvents + 1
            /\ hist' = NoHist
            /\ UNCHANGED <<serverUp, ioSockets, listeners, activeUsers, sock, adapter>>
    /\ UNCHANGED <<socketAttr, nextId, clientVars>>

\* ------------------------------------------------------ typing broadcast
UserTypingEvent(s, data) ==
    [ev |-> "userTyping", userId |-> sock[s].userId, userName |-> sock[s].userName,
     isTyping |-> data.isTyping]

\* io.emit in place of socket.broadcast.emit: the sender too
UserTypingTargetsAll(s) == Connected

\* socket.broadcast.emit: every socket of the namespace but the sender
UserTypingTargets(s) == Connected \ {s}

\* socket.on('userTyping'): reading data.isTyping of null throws.
UserTyping(s, data) ==
    /\ serverUp
    /\ sock[s].st = "connected"
    /\ "userTyping" \in listeners[s]
    /\ nEvents < MaxEvents
    /\ IF data.kind = "null"
       THEN Crash(sock)
       ELSE /\ rcvd' = EmitTo(rcvd, UserTypingTargets(s), UserTypingEvent(s, data))
            /\ nEvents' = nEvents + 1
            /\ hist' = [NoHist EXCEPT !.op = "typing", !.s = s, !.to = sock[s].userId]
            /\ UNCHANGED <<serverUp, ioSockets, listeners, activeUsers, sock, adapter>>
    /\ UNCHANGED <<socketAttr, nextId, clientVars>>

\* ----------------------------------------------------------- active users
ActiveUsersListEvent(au) == [ev |-> "activeUsersList", users |-> Values(au)]

\* io.emit in place of socket.emit: every socket of the namespace
GetActiveUsersTargetsAll(s) == Connected

\* socket.emit: the requesting socket
GetActiveUsersTargets(s) == {s}

\* socket.on('getActiveUsers')
GetActiveUsers(s) ==
    /\ serverUp
    /\ sock[s].st = "connected"
    /\ "getActiveUsers" \in listeners[s]
    /\ nEvents < MaxEvents
    /\ rcvd' = EmitTo(rcvd, GetActiveUsersTargets(s), ActiveUsersListEvent(activeUsers))
    /\ nEvents' = nEvents + 1
    /\ hist' = [NoHist EXCEPT !.op = "list", !.s = s, !.before = Values(activeUsers)]
    /\ UNCHANGED <<serverUp, ioSockets, listeners, activeUsers, sock, adapter>>
    /\ UNCHANGED <<socketAttr, nextId, clientVars>>

\* ---------------------------------------------------------- notifications
NotificationEvent(s, data, now) ==
    [ev |-> "notificationReceived", id |-> now, from |-> sock[s].userName,
     fromId |-> sock[s].userId, message |-> data.message, type |-> "info"]

\* Array.from(io.sockets.sockets.values()).find(s => s.userId === recipientId)
FindRecipient(recipientId) ==
    LET idx == {i \in 1..Len(ioSockets) : sock[ioSockets[i]].userId = recipientId}
    IN IF idx = {} THEN NoSocket
       ELSE ioSockets[CHOOSE i \in idx : \A j \in idx : i <= j]

\* recipient.emit to every socket of the identity, not to the one found
NotificationTargetsAllOfIdentity(recipientId) ==
    {t \in Connected : sock[t].userId = recipientId}

\* if (recipient) recipient.emit(...): the one socket found, or nobody
NotificationTargets(recipientId) ==
    IF FindRecipient(recipientId) = NoSocket THEN {} ELSE {FindRecipient(recipientId)}

\* socket.on('sendNotification'): reading data.recipientId of null throws.
SendNotification(s, data) ==
    /\ serverUp
    /\ sock[s].st = "connected"
    /\ "sendNotification" \in listeners[s]
    /\ nEvents < MaxEvents
    /\ IF data.kind = "null"
       THEN Crash(sock)
       ELSE /\ \E now \in DateNow :
                   rcvd' = EmitTo(rcvd, NotificationTargets(data.recipientId),
                                  NotificationEvent(s, data, now))
            /\ nEvents' = nEvents + 1
            /\ hist' = IF NotificationTargets(data.recipientId) = {}
                       THEN [NoHist EXCEPT !.op = "undeliverable", !.s = s,
                                           !.to = data.recipientId]
                       ELSE NoHist
            /\ UNCHANGED <<serverUp, ioSockets, listeners, activeUsers, sock, adapter>>
    /\ UNCHANGED <<socketAttr, nextId, clientVars>>

\* ------------------------------------------------------------ chat rooms
RoomEvent(s, type) ==
    [ev |-> "roomEvent", type |-> type, userName |-> sock[s].userName]

\* socket.to(roomId): the members of the room but the socket itself
RoomTargetsButSender(ad, s, roomId) == ad.rooms[roomId] \ {s}

\* io.to(roomId): the members of the room
RoomTargets(ad, s, roomId) == ad.rooms[roomId]

\* socket.on('joinChatRoom'): join, then tell the room, the joiner included
JoinChatRoomHandler(s, roomId) ==
    /\ serverUp
    /\ sock[s].st = "connected"
    /\ "joinChatRoom" \in listeners[s]
    /\ nEvents < MaxRoomEvents
    /\ adapter' = AdapterAdd(adapter, s, roomId)
    /\ rcvd' = EmitTo(rcvd, RoomTargets(adapter', s, roomId), RoomEvent(s, "userJoined"))
    /\ nEvents' = nEvents + 1
    /\ hist' = [NoHist EXCEPT !.op = "join", !.s = s, !.to = roomId,
                              !.members = adapter.rooms[roomId]]
    /\ UNCHANGED <<serverUp, ioSockets, listeners, activeUsers, sock>>

\* any client emits joinChatRoom and the server takes it in
JoinChatRoom(s, roomId) ==
    /\ JoinChatRoomHandler(s, roomId)
    /\ UNCHANGED <<socketAttr, nextId, clientVars>>

\* socket.on('leaveChatRoom'): leave, then tell those who remain in the room
LeaveChatRoomHandler(s, roomId) ==
    /\ serverUp
    /\ sock[s].st = "connected"
    /\ "leaveChatRoom" \in listeners[s]
    /\ nEvents < MaxRoomEvents
    /\ adapter' = AdapterDel(adapter, s, roomId)
    /\ rcvd' = EmitTo(rcvd, RoomTargets(adapter', s, roomId), RoomEvent(s, "userLeft"))
    /\ nEvents' = nEvents + 1
    /\ hist' = IF hist.op = "join" /\ hist.s = s /\ hist.to = roomId
               THEN [hist EXCEPT !.op = "joinLeave"]
               ELSE NoHist
    /\ UNCHANGED <<serverUp, ioSockets, listeners, activeUsers, sock>>

\* any client emits leaveChatRoom and the server takes it in
LeaveChatRoom(s, roomId) ==
    /\ LeaveChatRoomHandler(s, roomId)
    /\ UNCHANGED <<socketAttr, nextId, clientVars>>

\* --------------------------------------------- the tab's rooms and sessions
\* room events one socket may have on their way at a time
MaxInFlight == 2

\* sessions one client socket opens, the first and the reconnections
MaxSessions == 2

\* The values `socket` can have in the render a click handler of component c
\* belongs to.  The hook returns socketRef.current as it was when the
\* component last rendered: null without a socket; the socket once the hook
\* has set connected or error after creating it; and either of the two in
\* between, where only a render for another reason has seen the socket.
RenderedSocket(c) ==
    LET s == socketRef[c] IN
    IF s = NoSocket THEN {NoSocket}
    ELSE IF comp[c].connected \/ comp[c].error \/ cl[s].st # "connecting" THEN {s}
    ELSE {NoSocket, s}

\* A click on a room button: handleJoinRoom emits leaveChatRoom for the room
\* shown, if there is one, and joinChatRoom for the room clicked, then shows
\* the room clicked with an empty message list.  socket?.emit emits nothing
\* without a socket; a socket that is not connected keeps what it is given
\* until it is.
HandleJoinRoom(roomId) ==
    /\ mounted["Chat"]
    /\ LET leave == IF chat.selectedRoom # NoRoom
                    THEN <<[ev |-> "leaveChatRoom", roomId |-> chat.selectedRoom]>>
                    ELSE <<>>
           emitted == leave \o <<[ev |-> "joinChatRoom", roomId |-> roomId]>>
       IN \E s \in RenderedSocket("Chat") :
              IF s = NoSocket
              THEN UNCHANGED outbox
              ELSE /\ Len(outbox[s]) + Len(emitted) <= MaxInFlight
                   /\ outbox' = [outbox EXCEPT ![s] = @ \o emitted]
    /\ chat' = [chat EXCEPT !.selectedRoom = roomId, !.messages = <<>>]
    /\ UNCHANGED <<serverVars, socketAttr, sock, nextId, appToken, mounted, socketRef, cl, comp,
                   typingVars, seen>>

\* The next room event a connected client emitted reaches the server, which
\* runs its handler.
TabRoomEvent(s) ==
    /\ cl[s].st = "connected"
    /\ outbox[s] # <<>>
    /\ IF Head(outbox[s]).ev = "joinChatRoom"
       THEN JoinChatRoomHandler(s, Head(outbox[s]).roomId)
       ELSE LeaveChatRoomHandler(s, Head(outbox[s]).roomId)
    /\ outbox' = [outbox EXCEPT ![s] = Tail(@)]
    /\ UNCHANGED <<socketAttr, nextId, appToken, mounted, socketRef, cl, comp, typingVars,
                   chat, seen>>

\* The reconnection delay elapses after the server has seen the old session
\* close: the manager makes an automatic attempt, which opens a new session
\* with the same token.  The index s stands for the client's socket and the
\* server's end of its current session; the server's Socket of the new
\* session is a new object, in no room and with no entry of its own.
TabReconnect(s) ==
    /\ cl[s].st = "waiting"
    /\ ~cl[s].skip
    /\ sock[s].st = "closed"
    /\ cl[s].sessions < MaxSessions
    /\ cl' = [cl EXCEPT ![s].st = "attempting", ![s].attempts = @ + 1, ![s].sessions = @ + 1]
    /\ sock' = [sock EXCEPT ![s] = [FreshSock EXCEPT !.st = "opening", !.token = sock[s].token]]
    /\ UNCHANGED <<serverVars, socketAttr, nextId, appToken, mounted, socketRef, comp,
                   typingVars, tabVars>>

\* Payloads a client can put on roomMessage.
RoomMessagePayloads ==
    {[kind |-> "object", roomId |-> r, text |-> "hi"] : r \in RoomIds}
    \cup {[kind |-> "null", roomId |-> Undefined, text |-> Undefined]}

RoomMessageReceivedEvent(s, roomData) ==
    [ev |-> "roomMessageReceived", from |-> sock[s].userName, text |-> roomData.text]

\* socket.on('roomMessage'): the message goes to the members of the room the
\* payload names; reading roomData.text of null throws.
RoomMessage(s, roomData) ==
    /\ serverUp
    /\ sock[s].st = "connected"
    /\ "roomMessage" \in listeners[s]
    /\ nEvents < MaxRoomEvents
    /\ IF roomData.kind = "null"
       THEN Crash(sock)
       ELSE /\ rcvd' = EmitTo(rcvd, RoomTargets(adapter, s, roomData.roomId),
                              RoomMessageReceivedEvent(s, roomData))
            /\ nEvents' = nEvents + 1
            /\ hist' = [NoHist EXCEPT !.op = "roomMessage", !.s = s, !.to = roomData.roomId,
                                      !.members = RoomTargets(adapter, s, roomData.roomId)]
            /\ UNCHANGED <<serverUp, ioSockets, listeners, activeUsers, sock, adapter>>
    /\ UNCHANGED <<socketAttr, nextId, clientVars>>

\* ---------------------------------------------------------------- presence
\* The values a client can put on updateStatus.
Statuses == {"online", "away", "busy"}

UserStatusChangedEvent(s, status) ==
    [ev |-> "userStatusChanged", userId |-> sock[s].userId, userName |-> sock[s].userName,
     status |-> status]

\* const user = activeUsers.get(socket.userId); if (user) { user.status =
\* status; activeUsers.set(socket.userId, user) }
SetStatus(au, s, status) ==
    IF MapHas(au, sock[s].userId)
    THEN MapSet(au, sock[s].userId, [MapGet(au, sock[s].userId) EXCEPT !.status = status])
    ELSE au

\* socket.on('updateStatus'): the entry of the identity, if there is one,
\* gets the status; userStatusChanged goes to everybody in either case.
UpdateStatus(s, status) ==
    /\ serverUp
    /\ sock[s].st = "connected"
    /\ "updateStatus" \in listeners[s]
    /\ nEvents < MaxEvents
    /\ activeUsers' = SetStatus(activeUsers, s, status)
    /\ rcvd' = EmitTo(rcvd, Connected, UserStatusChangedEvent(s, status))
    /\ nEvents' = nEvents + 1
    /\ hist' = [NoHist EXCEPT !.op = "status", !.s = s, !.before = activeUsers, !.to = status]
    /\ UNCHANGED <<serverUp, ioSockets, listeners, sock, adapter>>
    /\ UNCHANGED <<socketAttr, nextId, clientVars>>

\* The server and the clients that talk to it.
Next ==
    \/ \E token \in Tokens : Connect(token)
    \/ \E s \in Sockets : Disconnect(s)
    \/ \E s \in Sockets, messageData \in MessagePayloads : SendMessage(s, messageData)
    \/ \E s \in Sockets, data \in NotificationPayloads : SendNotification(s, data)

Spec == Init /\ [][Next]_vars

\* The server's rooms and the clients that join and leave them.
NextRooms ==
    \/ \E token \in Tokens : Connect(token)
    \/ \E s \in Sockets : Disconnect(s)
    \/ \E s \in Sockets, roomId \in RoomIds : nEvents < MaxEvents /\ JoinChatRoom(s, roomId)
    \/ \E s \in Sockets, roomId \in RoomIds : nEvents < MaxEvents /\ LeaveChatRoom(s, roomId)

SpecRooms == Init /\ [][NextRooms]_vars

\* Joins and leaves of connections that stay connected.
NextJoin ==
    \/ \E token \in Tokens : Connect(token)
    \/ \E s \in Sockets, roomId \in RoomIds : JoinChatRoom(s, roomId)
    \/ \E s \in Sockets, roomId \in RoomIds : LeaveChatRoom(s, roomId)

SpecJoin == Init /\ [][NextJoin]_vars

\* Typing signals and registry queries of connections, some of them in rooms.
NextRelay ==
    \/ \E token \in Tokens : Connect(token)
    \/ \E s \in Sockets, roomId \in RoomIds : JoinChatRoom(s, roomId)
    \/ \E s \in Sockets, data \in TypingPayloads : UserTyping(s, data)
    \/ \E s \in Sockets : GetActiveUsers(s)

SpecRelay == Init /\ [][NextRelay]_vars

\* Typing signals and registry queries while connections come and go.
NextPresence ==
    \/ \E token \in Tokens : Connect(token)
    \/ \E s \in Sockets : Disconnect(s)
    \/ \E s \in Sockets, data \in TypingPayloads : UserTyping(s, data)
    \/ \E s \in Sockets : GetActiveUsers(s)

SpecPresence == Init /\ [][NextPresence]_vars

\* The gateway and clients that present tokens of any kind.
NextAuth ==
    \/ \E token \in Tokens \cup {ForgedToken, ReadmeToken} : Connect(token)
    \/ \E s \in Sockets : Disconnect(s)

SpecAuth == Init /\ [][NextAuth]_vars

\* Presence: connections come and go and set their status.
NextStatus ==
    \/ \E token \in Tokens : Connect(token)
    \/ \E s \in Sockets : Disconnect(s)
    \/ \E s \in Sockets, status \in Statuses : UpdateStatus(s, status)

SpecStatus == Init /\ [][NextStatus]_vars

\* Rooms and the messages sent into them.
NextRoomMessage ==
    \/ \E token \in Tokens : Connect(token)
    \/ \E s \in Sockets, roomId \in RoomIds : JoinChatRoom(s, roomId)
    \/ \E s \in Sockets, roomId \in RoomIds : LeaveChatRoom(s, roomId)
    \/ \E s \in Sockets, roomData \in RoomMessagePayloads : RoomMessage(s, roomData)

SpecRoomMessage == Init /\ [][NextRoomMessage]_vars

\* A tab whose ChatComponent chooses rooms, over the loss of its connection
\* and the automatic reconnection.
NextTabRooms ==
    \/ \E token \in {"tokA"} : SetToken(token)
    \/ \E c \in {"Chat"} : Mount(c)
    \/ \E s \in Sockets : Handshake(s)
    \/ \E s \in Sockets : TabConnected(s)
    \/ \E roomId \in RoomIds : HandleJoinRoom(roomId)
    \/ \E s \in Sockets : TabRoomEvent(s)
    \/ \E s \in Sockets : Disconnect(s)
    \/ \E s \in Sockets : TransportLoss(s)
    \/ \E s \in Sockets : TabReconnect(s)

SpecTabRooms == Init /\ [][NextTabRooms]_vars

\* A tab whose ChatComponent receives chat messages, over the loss of its
\* connection and the automatic reconnection.
NextTabMessages ==
    \/ \E token \in {"tokA"} : SetToken(token)
    \/ \E c \in {"Chat"} : Mount(c)
    \/ \E s \in Sockets : Handshake(s)
    \/ \E s \in Sockets : TabConnected(s)
    \/ \E s \in Sockets : Deliver(s)
    \/ \E s \in Sockets : Disconnect(s)
    \/ \E s \in Sockets : TransportLoss(s)
    \/ \E s \in Sockets : TabReconnect(s)
    \/ \E s \in Sockets, messageData \in MessagePayloads : SendMessage(s, messageData)

SpecTabMessages == Init /\ [][NextTabMessages]_vars

\* A tab that shows who is typing, and another client that types and leaves.
NextTabTyping ==
    \/ \E token \in {"tokA"} : SetToken(token)
    \/ \E c \in {"Chat"} : Mount(c)
    \/ \E s \in Sockets : Handshake(s)
    \/ \E s \in Sockets : TabConnected(s)
    \/ \E s \in Sockets : Deliver(s)
    \/ \E token \in {"tokB"} : Connect(token)
    \/ \E s \in Sockets : Disconnect(s)
    \/ \E s \in Sockets, data \in TypingPayloads : UserTyping(s, data)

SpecTabTyping == Init /\ [][NextTabTyping]_vars

\* the server gets to every handshake, and every event sent reaches its client
SpecTabTypingFair ==
    /\ SpecTabTyping
    /\ WF_vars(\E s \in Sockets : Handshake(s))
    /\ WF_vars(\E s \in Sockets : TabConnected(s))
    /\ WF_vars(\E s \in Sockets : Deliver(s))

\* A browser tab running the App, the server, and another client (a second
\* tab).  The App's token is a server-issued one or the README's.
NextTabs ==
    \/ \E token \in {"tokA", ReadmeToken} : SetToken(token)
    \/ \E c \in Components : Mount(c)
    \/ \E s \in Sockets : Handshake(s)
    \/ \E s \in Sockets : TabConnected(s)
    \/ \E s \in Sockets : TabRejected(s)
    \/ \E s \in Sockets : Deliver(s)
    \/ \E token \in {"tokB", ReadmeToken} : Connect(token)
    \/ \E s \in Sockets : Disconnect(s)
    \/ \E s \in Sockets, messageData \in MessagePayloads : SendMessage(s, messageData)
    \/ \E s \in Sockets : comp["Chat"].eff = s /\ GetActiveUsers(s)

SpecTabs == Init /\ [][NextTabs]_vars

\* the server gets to every handshake, and every event sent reaches its client
SpecTabsFair ==
    /\ SpecTabs
    /\ WF_vars(\E s \in Sockets : Handshake(s))
    /\ WF_vars(\E s \in Sockets : TabConnected(s))
    /\ WF_vars(\E s \in Sockets : Deliver(s))

\* The App's components, their useSocket hooks, and the server's side of the
\* sessions they open.
NextHook ==
    \/ \E token \in Tokens : SetToken(token)
    \/ \E c \in Components : Mount(c)
    \/ \E c \in Components : Unmount(c)
    \/ \E s \in Sockets : Handshake(s)
    \/ \E s \in Sockets : Disconnect(s)

SpecHook == Init /\ [][NextHook]_vars

\* Chat messages that carry a text, among clients the gateway admits.
NextChat ==
    \/ \E token \in {"tokA", "tokB"} : Connect(token)
    \/ \E s \in Sockets : Disconnect(s)
    \/ \E s \in Sockets :
          \E messageData \in {p \in MessagePayloads : p.kind = "object" /\ p.text # Undefined} :
              SendMessage(s, messageData)

SpecChat == Init /\ [][NextChat]_vars

\* Notifications only.
NextNotify ==
    \/ \E token \in Tokens : Connect(token)
    \/ \E s \in Sockets : Disconnect(s)
    \/ \E s \in Sockets : \E data \in NotificationPayloads : SendNotification(s, data)

SpecNotify == Init /\ [][NextNotify]_vars

\* The listeners of the components over mounts, unmounts and reconnections,
\* the gateway being the client's environment.
NextListeners ==
    \/ \E token \in Tokens : SetToken(token)
    \/ \E c \in Components : Mount(c)
    \/ \E c \in Components : Unmount(c)
    \/ \E s \in Sockets : ClientConnected(s)
    \/ \E s \in Sockets : ReconnectTimer(s)
    \/ \E s \in Sockets : TransportLoss(s)
    \/ \E c \in Components : ManualDisconnect(c)
    \/ \E c \in Components : ManualReconnect(c)

SpecListeners == Init /\ [][NextListeners]_vars

\* The connection of the mounted components as the client sees it, the
\* gateway being its environment.
NextClient ==
    \/ \E token \in Tokens : SetToken(token)
    \/ \E c \in Components : Mount(c)
    \/ \E s \in Sockets : ClientConnected(s)
    \/ \E s \in Sockets : ConnectFails(s)
    \/ \E s \in Sockets : ClientRejected(s)
    \/ \E s \in Sockets : ReconnectTimer(s)
    \/ \E s \in Sockets : TransportLoss(s)
    \/ \E c \in Components : ManualDisconnect(c)
    \/ \E c \in Components : ManualReconnect(c)

SpecClient == Init /\ [][NextClient]_vars

\* The message input of a connected ChatComponent.
NextTyping ==
    \/ \E token \in Tokens : SetToken(token)
    \/ \E c \in Components : Mount(c)
    \/ \E s \in Sockets : ClientConnected(s)
    \/ \E v \in {"", "x"} : HandleInputChange(v)
    \/ \E h \in timers : TypingTimeout(h)
    \/ HandleSendMessage

SpecTyping == Init /\ [][NextTyping]_vars

\* ======================================================================
\* Properties
\* ======================================================================
Last(q) == q[Len(q)]

Live == {s \in Sockets : sock[s].st \in {"opening", "connected"}}

\* C1: all components that call useSocket(token) hold the same socket, and the
\* client never has a second transport session while one exists.
C1_SingleSocket ==
    /\ \A c1, c2 \in Components :
          (socketRef[c1] # NoSocket /\ socketRef[c2] # NoSocket)
              => socketRef[c1] = socketRef[c2]
    /\ Cardinality(Live) <= 1

\* C2: whenever a handshake passes the authentication middleware, the
\* connection callback completes: the identity is in activeUsers with status
\* 'online', userConnected with the updated list went to every connection,
\* and the socket has its event handlers.
C2_ConnectionCompletes ==
    [][\A token \in Tokens :
         (Decodable(token) /\ Connect(token)) =>
            LET s == nextId
                d == JwtDecode(token)
            IN /\ MapHas(activeUsers', d.userId)
               /\ MapGet(activeUsers', d.userId).status = "online"
               /\ s \in Connected'
               /\ \A t \in Connected' :
                     /\ Len(rcvd'[t]) = Len(rcvd[t]) + 1
                     /\ Last(rcvd'[t]).ev = "userConnected"
                     /\ Last(rcvd'[t]).activeUsers = Values(activeUsers')
               /\ listeners'[s] = Handlers]_vars

\* C3: a handshake without a token, or with a token that cannot be decoded,
\* is rejected with an error and changes nothing else: not activeUsers, not
\* any connection's stream, not the set of connections, and the socket gets
\* no handler.
C3_RejectChangesNothing ==
    [][\A token \in Tokens :
         ((token = NoToken \/ ~Decodable(token)) /\ Connect(token)) =>
            /\ sock'[nextId].st = "rejected"
            /\ sock'[nextId].err # ""
            /\ \A t \in Sockets \ {nextId} : sock'[t] = sock[t]
            /\ activeUsers' = activeUsers
            /\ rcvd' = rcvd
            /\ ioSockets' = ioSockets
            /\ listeners' = listeners
            /\ serverUp' = serverUp]_vars

\* a handshake was rejected while another identity was connected and registered
C3_Witness ==
    \E s, t \in Sockets :
        /\ t < s
        /\ sock[s].st = "rejected"
        /\ sock[t].st = "connected"
        /\ activeUsers # <<>>
        /\ rcvd[t] # <<>>

\* C4: an identity has an entry in activeUsers iff at least one of its
\* authenticated connections is live.
C4_EntryIffLive ==
    \A u \in Users :
        MapHas(activeUsers, u) <=>
            \E s \in Sockets : sock[s].st = "connected" /\ sock[s].userId = u

\* C5: activeUsers holds at most one entry per identity, and a connection of
\* an identity replaces that identity's entry (new socketId) or, if it had
\* none, adds one.
C5_OneEntryPerIdentity ==
    /\ \A i, j \in 1..Len(activeUsers) :
          activeUsers[i].key = activeUsers[j].key => i = j
    /\ hist.op = "connect" =>
          LET u == sock[hist.s].userId IN
          /\ MapHas(activeUsers, u)
          /\ MapGet(activeUsers, u).socketId = hist.s
          /\ Len(activeUsers) = IF MapHas(hist.before, u)
                                 THEN Len(hist.before)
                                 ELSE Len(hist.before) + 1

\* a second connection of a registered identity was just processed
C5_Witness ==
    /\ hist.op = "connect"
    /\ MapHas(hist.before, sock[hist.s].userId)
    /\ MapGet(hist.before, sock[hist.s].userId).socketId # hist.s

\* C6: a connect of an identity followed by the disconnect of that same
\* connection leaves Array.from(activeUsers.values()) as it was before the
\* connect, whether or not the identity already had an entry.
C6_ConnectDisconnectRestores ==
    hist.op = "connectDisconnect" => Values(activeUsers) = Values(hist.before)

\* C7: on every connect and every disconnect the registry change and its
\* broadcast are one step, and the list the broadcast carries is the registry
\* content at the moment of emission: every connection that remains gets, in
\* that step, one presence event whose activeUsers equals the registry.
C7_PresenceBroadcastAtomic ==
    [][((\E token \in Tokens : Decodable(token) /\ Connect(token))
          \/ (\E s \in Sockets : Disconnect(s)))
       /\ serverUp'
       => /\ \A t \in Connected' :
               /\ Len(rcvd'[t]) = Len(rcvd[t]) + 1
               /\ Last(rcvd'[t]).ev \in {"userConnected", "userDisconnected"}
               /\ Last(rcvd'[t]).activeUsers = Values(activeUsers')
          /\ \A t \in Sockets \ Connected' : rcvd'[t] = rcvd[t]]_vars

\* a connection has just been told of a disconnect that left the registry non-empty,
\* after connects that each changed the registry
C7_Witness ==
    \E t \in Connected :
        /\ Len(rcvd[t]) >= 3
        /\ Last(rcvd[t]).ev = "userDisconnected"
        /\ Last(rcvd[t]).activeUsers # <<>>
        /\ rcvd[t][1].ev = "userConnected"

\* C8: for every sendMessage the server processes (a payload that carries a
\* text), every connected socket, the sender included, gets exactly one
\* messageReceived with that text, appended after everything emitted to it
\* before, so that two messages arrive everywhere in processing order; a
\* socket that is not connected gets nothing.
C8_MessageToAllInOrder ==
    [][\A s \in Sockets, p \in MessagePayloads :
         (p.kind = "object" /\ SendMessage(s, p)) =>
            \A t \in Sockets :
               IF t \in Connected
               THEN /\ Len(rcvd'[t]) = Len(rcvd[t]) + 1
                    /\ SubSeq(rcvd'[t], 1, Len(rcvd[t])) = rcvd[t]
                    /\ Last(rcvd'[t]).ev = "messageReceived"
                    /\ Last(rcvd'[t]).text = p.text
                    /\ Last(rcvd'[t]).fromId = sock[s].userId
               ELSE rcvd'[t] = rcvd[t]]_vars

MessagesOf(q) == SelectSeq(q, LAMBDA e : e.ev = "messageReceived")

\* two connections have each received the same two different messages, in the same order
C8_Witness ==
    \E s, t \in Connected :
        /\ s # t
        /\ Len(MessagesOf(rcvd[s])) = 2
        /\ MessagesOf(rcvd[s])[1] # MessagesOf(rcvd[s])[2]
        /\ MessagesOf(rcvd[t]) = MessagesOf(rcvd[s])

\* C9: a sendMessage with a missing or empty text, or with no object at all,
\* broadcasts nothing, leaves activeUsers alone, is answered with an error to
\* the sender only, and leaves the server able to process later events.
C9_InvalidMessageRejected ==
    [][\A s \in Sockets, p \in MessagePayloads :
         ((p.kind # "object" \/ p.text \in {"", Undefined}) /\ SendMessage(s, p)) =>
            /\ \A t \in Sockets \ {s} : rcvd'[t] = rcvd[t]
            /\ Len(rcvd'[s]) = Len(rcvd[s]) + 1
            /\ Last(rcvd'[s]).ev = "error"
            /\ activeUsers' = activeUsers
            /\ serverUp']_vars

\* C10: a sendNotification to a recipientId without a live connection emits
\* no notificationReceived to anyone and tells the sender that the
\* notification is undeliverable.
C10_UndeliverableReported ==
    [][\A s \in Sockets, data \in NotificationPayloads :
         (/\ data.kind = "object"
          /\ ~\E t \in Connected : sock[t].userId = data.recipientId
          /\ SendNotification(s, data)) =>
            /\ \A t \in Sockets \ {s} : rcvd'[t] = rcvd[t]
            /\ Len(rcvd'[s]) = Len(rcvd[s]) + 1
            /\ Last(rcvd'[s]).ev # "notificationReceived"]_vars

\* C11: a sendNotification to an identity that is online reaches exactly one
\* connection, once; that connection belongs to the recipient identity, and
\* no other connection gets anything, also when the recipient holds several
\* live connections.
C11_OneRecipientConnection ==
    [][\A s \in Sockets, data \in NotificationPayloads :
         (/\ data.kind = "object"
          /\ \E t \in Connected : sock[t].userId = data.recipientId
          /\ SendNotification(s, data)) =>
            \E t \in Connected :
               /\ sock[t].userId = data.recipientId
               /\ Len(rcvd'[t]) = Len(rcvd[t]) + 1
               /\ SubSeq(rcvd'[t], 1, Len(rcvd[t])) = rcvd[t]
               /\ Last(rcvd'[t]).ev = "notificationReceived"
               /\ Last(rcvd'[t]).fromId = sock[s].userId
               /\ \A o \in Sockets \ {t} : rcvd'[o] = rcvd[o]]_vars

NotificationsOf(q) == SelectSeq(q, LAMBDA e : e.ev = "notificationReceived")

\* the recipient identity holds two live connections and exactly one of them
\* has received the notification
C11_Witness ==
    \E t, o \in Connected :
        /\ t # o
        /\ sock[t].userId = sock[o].userId
        /\ Len(NotificationsOf(rcvd[t])) = 1
        /\ Last(rcvd[t]).ev = "notificationReceived"
        /\ NotificationsOf(rcvd[o]) = <<>>

\* C12: a notificationReceived goes to a connection of identity r only when
\* activeUsers holds an entry for r at the moment the sendNotification is
\* processed.
C12_DeliveredOnlyIfRegistered ==
    [][\A t \in Sockets :
         (/\ Len(rcvd'[t]) = Len(rcvd[t]) + 1
          /\ Last(rcvd'[t]).ev = "notificationReceived")
            => MapHas(activeUsers, sock[t].userId)]_vars

\* C13: when an identity connects, the notifications addressed to it while
\* it was offline are delivered to the new connection before the
\* userConnected broadcast for that identity.
C13_PendingFlushedOnConnect ==
    [][\A token \in Tokens :
         (/\ hist.op = "undeliverable"
          /\ Decodable(token)
          /\ JwtDecode(token).userId = hist.to
          /\ Connect(token)
          /\ serverUp') =>
            /\ Len(rcvd'[nextId]) >= 2
            /\ rcvd'[nextId][1].ev = "notificationReceived"
            /\ Last(rcvd'[nextId]).ev = "userConnected"]_vars

\* the events appended to q by a step that led to q2
Suffix(q, q2) == SubSeq(q2, Len(q) + 1, Len(q2))

UserLeftOf(q) == SelectSeq(q, LAMBDA e : e.ev = "roomEvent" /\ e.type = "userLeft")

\* C19: when a connection that is a member of rooms r1..rk disconnects, the
\* remaining members of each of those rooms get exactly one roomEvent of
\* type userLeft per room, and nobody else gets one.
C19_DisconnectLeavesRooms ==
    [][\A s \in Sockets :
         (Disconnect(s) /\ adapter.sids[s] # {}) =>
            \A t \in Sockets \ {s} :
               Len(UserLeftOf(Suffix(rcvd[t], rcvd'[t]))) =
                  Cardinality({r \in adapter.sids[s] : t \in adapter.rooms[r]})]_vars

\* C20: the two room indices agree in every reachable state, and a
\* connection whose disconnect has been processed is a member of no room.
C20_RoomIndicesMirror ==
    /\ \A s \in Sockets, r \in RoomIds :
          r \in adapter.sids[s] <=> s \in adapter.rooms[r]
    /\ \A s \in Sockets :
          sock[s].st # "connected" =>
             /\ adapter.sids[s] = {}
             /\ \A r \in RoomIds : s \notin adapter.rooms[r]

\* a connection that had joined a room and left one has disconnected, while
\* another connection is still a member of a room
C20_Witness ==
    \E s, t \in Sockets :
        /\ sock[s].st = "closed"
        /\ \E i \in 1..Len(rcvd[s]) :
              rcvd[s][i].ev = "roomEvent" /\ rcvd[s][i].userName = sock[s].userName
        /\ sock[t].st = "connected"
        /\ adapter.sids[t] # {}

\* C16: across mounts and unmounts the client holds no socket besides the one
\* in use: a socket whose consumer has unmounted is reused by the next mount
\* or closed, so every live socket is held by a mounted component.
C16_NoOrphanSocket ==
    \A s \in Live : \E c \in Components : mounted[c] /\ socketRef[c] = s

\* C14: a run of N >= 1 keystrokes that starts with no timer pending and in
\* which each keystroke comes before the timer of the previous one has fired
\* emits userTyping true exactly once (at the first keystroke, so while the run
\* goes on one true and no false has been emitted) and userTyping false exactly
\* once, by the timer that the last keystroke set.  Stated for runs in which
\* no message is submitted.
C14_OneTrueOneFalsePerBurst ==
    burst.clean =>
        /\ burst.open => burst.trues = 1 /\ burst.falses = 0
        /\ (~burst.open /\ burst.keys > 0) =>
               burst.trues = 1 /\ burst.falses = 1 /\ burst.fired = burst.keys

C14_Witness ==
    /\ burst.clean /\ ~burst.open /\ burst.keys >= 2
    /\ burst.trues = 1 /\ burst.falses = 1
    /\ typingLog = <<TRUE, FALSE>>

\* the handlers on socket s that belong to somebody else than component c
OthersHandlers(tbls, s, c) ==
    [e \in ClientEvents |-> SelectSeq(tbls[s].on[e], LAMBDA o : o # c)]

C17_AtMostFiveAttempts ==
    /\ [](\A s \in Sockets : cl[s].attempts <= ReconnectionAttempts)
    /\ [][\A s \in Sockets :
            (cl[s].st = "failed" /\ cl'[s].st \notin {"failed", "closed"})
            => \E c \in Components : socketRef[c] = s /\ ManualReconnect(c)]_vars

C17_Witness ==
    \E s \in Sockets : cl[s].st = "failed" /\ cl[s].attempts = ReconnectionAttempts

\* C18: from the consumer's disconnect() until its reconnect(), whatever the
\* state disconnect() was called in, the socket is closed (no attempt is in
\* flight or scheduled) and the hook's connected flag is false.
C18_DisconnectStopsReconnection ==
    \A c \in Components :
        (mounted[c] /\ socketRef[c] # NoSocket /\ cl[socketRef[c]].skip)
        => /\ cl[socketRef[c]].st = "closed"
           /\ ~comp[c].connected

\* disconnect() called after a failed attempt, so during the reconnection
C18_Witness ==
    \E c \in Components :
        /\ mounted[c] /\ socketRef[c] # NoSocket
        /\ cl[socketRef[c]].skip /\ cl[socketRef[c]].st = "closed"
        /\ comp[c].error /\ ~comp[c].connected

\* C21 as stated: whenever a connection joins a room and then leaves it, the
\* room has as many members as before the join.
C21_JoinLeaveRestoresSize ==
    hist.op = "joinLeave" => Cardinality(adapter.rooms[hist.to]) = Cardinality(hist.members)

\* C21 amended: when a connection that is not a member of a room joins it and
\* then leaves it, the room has as many members as before the join (and the
\* same ones).
C21_JoinLeaveRestoresSizeOfNonMember ==
    (hist.op = "joinLeave" /\ hist.s \notin hist.members)
    => /\ Cardinality(adapter.rooms[hist.to]) = Cardinality(hist.members)
       /\ adapter.rooms[hist.to] = hist.members

C21_Witness ==
    /\ hist.op = "joinLeave"
    /\ hist.s \notin hist.members
    /\ hist.members # {}

\* C22: a joinChatRoom that directly follows a joinChatRoom of the same room
\* by the same connection changes neither the server's state nor what any
\* client has been sent.
C22_JoinIdempotent ==
    [][\A s \in Sockets : \A r \in RoomIds :
          (hist.op = "join" /\ hist.s = s /\ hist.to = r /\ JoinChatRoom(s, r))
          => /\ adapter' = adapter
             /\ activeUsers' = activeUsers
             /\ rcvd' = rcvd]_vars

\* C23: a joinChatRoom(r) appends one roomEvent of type userJoined to the
\* stream of every connection that is in r after the join, the joiner
\* included, and leaves the stream of every other connection as it was.
C23_UserJoinedToRoomOnce ==
    [][\A s \in Sockets : \A r \in RoomIds :
          JoinChatRoom(s, r)
          => /\ s \in adapter'.rooms[r]
             /\ \A t \in Sockets :
                   rcvd'[t] = IF t \in adapter'.rooms[r]
                              THEN Append(rcvd[t], [ev |-> "roomEvent", type |-> "userJoined",
                                                    userName |-> sock[s].userName])
                              ELSE rcvd[t]]_vars

\* the second connection joined a room the first was in: both were told
C23_Witness ==
    \E s, t \in Sockets : \E r \in RoomIds :
        /\ s # t
        /\ {s, t} \subseteq adapter.rooms[r]
        /\ hist.op = "join" /\ hist.s = s /\ hist.to = r /\ t \in hist.members
        /\ Last(rcvd[s]) = RoomEvent(s, "userJoined")
        /\ Last(rcvd[t]) = RoomEvent(s, "userJoined")

\* C24: a userTyping the server processes adds nothing to the stream of the
\* connection that sent it; whoever is sent the broadcast is another connection.
C24_TypingNotEchoed ==
    [][\A s \in Sockets : \A data \in TypingPayloads :
          UserTyping(s, data)
          => /\ rcvd'[s] = rcvd[s]
             /\ \A t \in Sockets : rcvd'[t] # rcvd[t] => t # s]_vars

\* another connection was sent the typing signal and the sender has none
C24_Witness ==
    \E s, t \in Sockets :
        /\ s # t /\ {s, t} \subseteq Connected
        /\ hist.op = "typing" /\ hist.s = s
        /\ Last(rcvd[t]).ev = "userTyping" /\ Last(rcvd[t]).userId = sock[s].userId
        /\ \A i \in 1..Len(rcvd[s]) : rcvd[s][i].ev # "userTyping"

\* C25: a userTyping sent by a connection that is in a chat room reaches only
\* connections that are in a room with the sender.
C25_TypingStaysInRoom ==
    [][\A s \in Sockets : \A data \in TypingPayloads :
          (UserTyping(s, data) /\ adapter.sids[s] # {})
          => \A t \in Sockets :
                rcvd'[t] # rcvd[t] => adapter.sids[t] \cap adapter.sids[s] # {}]_vars

\* C26: a getActiveUsers appends one activeUsersList to the stream of the
\* requesting connection and nothing to any other stream; its content is the
\* registry's entries in the order of the Map, which is the order in which the
\* identities were inserted; the server's state is unchanged.
C26_ActiveUsersListToRequester ==
    [][\A s \in Sockets :
          GetActiveUsers(s)
          => /\ rcvd'[s] = Append(rcvd[s],
                    [ev |-> "activeUsersList",
                     users |-> [i \in 1..Len(activeUsers) |-> activeUsers[i].val]])
             /\ \A t \in Sockets \ {s} : rcvd'[t] = rcvd[t]
             /\ UNCHANGED <<activeUsers, ioSockets, listeners, adapter, sock, serverUp>>]_vars

\* a list of two entries, in the order the two identities connected, went to
\* the requester and not to the other connection
C26_Witness ==
    \E s, t \in Sockets :
        /\ s # t /\ {s, t} \subseteq Connected
        /\ hist.op = "list" /\ hist.s = s
        /\ Last(rcvd[s]).ev = "activeUsersList"
        /\ Len(Last(rcvd[s]).users) = 2
        /\ Last(rcvd[s]).users[1].socketId < Last(rcvd[s]).users[2].socketId
        /\ Last(rcvd[t]).ev # "activeUsersList"

\* the identity of the closed session s has no connection made after s
NoLaterConnection(s) ==
    \A t \in Connected : sock[t].userId = sock[s].userId => t < s

\* the identity of the closed session s has no connection
NoConnection(s) ==
    \A t \in Connected : sock[t].userId # sock[s].userId

\* C27 as stated: once the disconnect of a connection of identity B has been
\* processed (and B has not connected again since), no activeUsersList reply
\* to another identity names B and no userTyping carrying B's userId is emitted.
C27_SilentAfterDisconnect ==
    \A s \in Sockets :
        (serverUp /\ sock[s].st = "closed" /\ NoLaterConnection(s))
        => /\ hist.op = "typing" => hist.to # sock[s].userId
           /\ (hist.op = "list" /\ sock[hist.s].userId # sock[s].userId)
              => \A i \in 1..Len(hist.before) : hist.before[i].userName # sock[s].userName

\* C27 amended: the same, while B has no connection at all.
C27_SilentWhileNoConnection ==
    \A s \in Sockets :
        (serverUp /\ sock[s].st = "closed" /\ NoConnection(s))
        => /\ hist.op = "typing" => hist.to # sock[s].userId
           /\ (hist.op = "list" /\ sock[hist.s].userId # sock[s].userId)
              => \A i \in 1..Len(hist.before) : hist.before[i].userName # sock[s].userName

\* B is gone and another identity has just been sent the list
C27_Witness ==
    \E s \in Sockets :
        /\ serverUp /\ sock[s].st = "closed" /\ NoConnection(s)
        /\ hist.op = "list" /\ sock[hist.s].userId # sock[s].userId
        /\ Len(hist.before) = 1

\* C30: no admitted connection presented a well-formed token that the server
\* did not sign, so no admitted connection is bound to a userId its client
\* chose for itself.
C30_ForgedTokenRejected ==
    \A s \in Sockets :
        sock[s].token = ForgedToken
        => /\ sock[s].st \notin {"connected", "closed"}
           /\ sock[s].userId = Undefined

\* C28: a session the App opens with the README's token gets connected.
\* (The first half of the claim; the message can only follow it.)
C28_ReadmeTabConnects ==
    \A s \in Sockets :
        (sock[s].token = ReadmeToken /\ sock[s].st = "opening") ~> (sock[s].st = "connected")

\* everything the server sent to the sessions of mounted components has
\* reached them, and they know of their connection
Settled ==
    \A c \in Components :
        (mounted[c] /\ socketRef[c] # NoSocket)
        => /\ seen[socketRef[c]] = Len(rcvd[socketRef[c]])
           /\ sock[socketRef[c]].st = "connected" => cl[socketRef[c]].st = "connected"
           /\ sock[socketRef[c]].st # "opening"

\* C29: once nothing is in flight, the list a connected ChatComponent shows
\* names exactly the users that have a connection to the server.
C29_ShownUsersAreConnectedUsers ==
    (serverUp /\ mounted["Chat"] /\ comp["Chat"].connected /\ Settled
       /\ sock[socketRef["Chat"]].st = "connected")
    => {chat.activeUsers[i].userName : i \in 1..Len(chat.activeUsers)}
         = {sock[t].userName : t \in Connected}

\* ======================================================================
\* C31: a ChatComponent has at most one pending stop-typing timer at every
\* moment, and it is the one typingTimeoutRef.current names: each keystroke
\* cancels the pending timer before it starts a new one, and the handle is
\* null again once the timer has fired.
C31_OnePendingTimer ==
    /\ Cardinality(timers) <= 1
    /\ \A h \in timers : h.id = typingTimeoutRef
    /\ (timers = {}) <=> (typingTimeoutRef = NoTimer)

\* an earlier timer has fired, and a later keystroke has replaced the timer
\* of the keystroke before it
C31_Witness ==
    /\ \E i \in 1..Len(typingLog) : typingLog[i] = FALSE
    /\ burst.keys >= 2
    /\ Cardinality(timers) = 1
    /\ typingTimeoutRef # NoTimer

\* ======================================================================
\* C33: the userTyping values one ChatComponent emits alternate strictly,
\* starting with true: the first, third, ... value is true and the second,
\* fourth, ... is false, whatever the order of keystrokes, form submissions
\* and timer expiries.
C33_TypingAlternates ==
    \A i \in 1..Len(typingLog) : typingLog[i] = (i % 2 = 1)

\* ======================================================================
\* C32: when the last automatic reconnection attempt fails, what the hook
\* exposes to its consumer (connected, error) changes, so that the state
\* after the failure of all attempts differs from the state exposed while
\* the reconnection was still in progress.
C32_FailureIsVisible ==
    [][\A c \in Components :
          (/\ mounted[c]
           /\ socketRef[c] # NoSocket
           /\ socketRef'[c] = socketRef[c]
           /\ cl[socketRef[c]].st = "attempting"
           /\ cl'[socketRef[c]].st = "failed")
          => <<comp'[c].connected, comp'[c].error>> # <<comp[c].connected, comp[c].error>>]_vars

\* ======================================================================
\* C34: in every reachable server state the socketId of each entry of
\* activeUsers is the id of a connection that is live, whatever the order of
\* connects, disconnects and updateStatus events of one or several
\* connections per identity.
C34_EntrySocketIsLive ==
    \A i \in 1..Len(activeUsers) :
        /\ activeUsers[i].val.socketId \in Connected
        /\ sock[activeUsers[i].val.socketId].st = "connected"

\* an updateStatus has just rewritten an entry, after another connection
\* has gone
C34_Witness ==
    /\ hist.op = "status"
    /\ MapHas(activeUsers, sock[hist.s].userId)
    /\ MapGet(activeUsers, sock[hist.s].userId).status = hist.to
    /\ hist.to # "online"
    /\ \E t \in Sockets : sock[t].st = "closed"

\* ======================================================================
\* C35: a roomMessageReceived reaches the members of a room only if the
\* connection that sent the roomMessage is a member of that room when the
\* server processes it.
C35_OnlyMembersSendToRoom ==
    (hist.op = "roomMessage" /\ hist.members # {}) => hist.s \in adapter.rooms[hist.to]

\* ======================================================================
\* C40: when userStatusChanged has just been broadcast, activeUsers holds an
\* entry for the broadcast's userId whose status is the broadcast status, and
\* the updateStatus that caused it has added no entry, removed none and left
\* the entries of the other identities as they were.
C40_StatusBroadcastMatchesRegistry ==
    hist.op = "status" =>
        LET u == sock[hist.s].userId IN
        /\ MapHas(activeUsers, u)
        /\ MapGet(activeUsers, u).status = hist.to
        /\ Len(activeUsers) = Len(hist.before)
        /\ \A i \in 1..Len(activeUsers) :
               /\ activeUsers[i].key = hist.before[i].key
               /\ activeUsers[i].key # u => activeUsers[i] = hist.before[i]

\* ======================================================================
\* NotificationComponent's list after it has taken in the events of stream q:
\* setNotifications(prev => [notification, ...prev]) for each notification
RECURSIVE NotificationList(_)
NotificationList(q) ==
    IF q = <<>> THEN <<>>
    ELSE IF Last(q).ev = "notificationReceived"
         THEN <<Last(q)>> \o NotificationList(SubSeq(q, 1, Len(q) - 1))
         ELSE NotificationList(SubSeq(q, 1, Len(q) - 1))

\* prev.filter(n => n.id !== notification.id): the auto-expiry and the
\* dismiss button
RemoveById(list, id) == SelectSeq(list, LAMBDA n : n.id # id)

\* the events of stream q that carry an id
StampedOf(q) == SelectSeq(q, LAMBDA e : e.ev \in StampedEvents)

\* C39: two distinct messages or notifications created by the server carry
\* different ids, so that removing a notification by its id from the list a
\* client shows takes out that notification and no other.
C39_DistinctIds ==
    \A s \in Sockets :
        /\ \A i, j \in 1..Len(StampedOf(rcvd[s])) :
               i # j => StampedOf(rcvd[s])[i].id # StampedOf(rcvd[s])[j].id
        /\ LET list == NotificationList(rcvd[s]) IN
           \A i \in 1..Len(list) : Len(RemoveById(list, list[i].id)) = Len(list) - 1

\* ======================================================================
\* C36: whenever the ChatComponent is connected, shows selectedRoom = r and
\* has no join or leave event on its way, the server has the component's
\* current connection in room r and in no other chat room, also after the
\* client has lost its connection and reconnected automatically.
C36_ShownRoomIsServerRoom ==
    \A s \in Sockets :
        (/\ mounted["Chat"]
         /\ socketRef["Chat"] = s
         /\ comp["Chat"].connected
         /\ cl[s].st = "connected"
         /\ sock[s].st = "connected"
         /\ chat.selectedRoom # NoRoom
         /\ outbox[s] = <<>>)
        => adapter.sids[s] = {chat.selectedRoom}

\* ======================================================================
\* C37: a user who has no connection left and whom the ChatComponent of a
\* connected client shows as typing is eventually removed from that
\* component's typingUsers, with no further event of that user.
C37_TypingClearedAfterDisconnect ==
    \A u \in Users :
        (/\ mounted["Chat"]
         /\ comp["Chat"].connected
         /\ u \in chat.typingUsers
         /\ \A t \in Connected : sock[t].userId # u)
        ~> (u \notin chat.typingUsers)

\* ======================================================================
\* C38: a mounted ChatComponent never has more than one handler on any of
\* messageReceived, userTyping, userConnected and userDisconnected of a
\* socket, across connects, disconnects and reconnections, and a
\* messageReceived that reaches the socket its listeners are on appends
\* exactly one entry to its messages.
C38_OneHandlerPerEvent ==
    /\ [](\A s \in Sockets : \A e \in ChatEvents : HandlerCount(s, e, "Chat") <= 1)
    /\ [][\A s \in Sockets :
              (/\ seen'[s] = seen[s] + 1
               /\ rcvd[s][seen[s] + 1].ev = "messageReceived"
               /\ mounted["Chat"]
               /\ comp["Chat"].eff = s)
              => chat'.messages = Append(chat.messages, rcvd[s][seen[s] + 1].text)]_vars

\* after a reconnection the component has its listeners on the socket again
\* and has taken in the one message sent since
C38_Witness ==
    \E s \in Sockets :
        /\ mounted["Chat"]
        /\ socketRef["Chat"] = s
        /\ cl[s].sessions = 2
        /\ comp["Chat"].eff = s
        /\ HandlerCount(s, "messageReceived", "Chat") = 1
        /\ seen[s] = Len(rcvd[s])
        /\ Len(rcvd[s]) >= 3
        /\ Last(rcvd[s]).ev = "messageReceived"
        /\ Len(MessagesOf(rcvd[s])) = 1
        /\ Len(chat.messages) = 1

=============================================================================
